---- MODULE Spec2Model ----
(***************************************************************************)
(* Model of smart_job_application_assistant.  resume_parser.py: the load   *)
(* of the NER model when the module is imported, the resume parser         *)
(* (contact, education and experience extractors, parse_resume) and the    *)
(* batch driver main().  app.py: the routes of the Flask application and   *)
(* the session of one client.  Text is a TLA+ string, read one character   *)
(* at a time with SubSeq; the regular expressions of the parser are        *)
(* interpreted by a backtracking matcher that follows Python's re module.  *)
(***************************************************************************)
EXTENDS Integers, Sequences, FiniteSets, TLC

VARIABLES
    nlp,                 \* the loaded NER model: entity surface form -> label
    pdf_files,           \* the PDF files on disk, in the order glob lists them
    pc,                  \* position of the running operation
    pdf_path,            \* parse_resume: index in pdf_files of its argument
    text,                \* the text the current operation works on
    contact_info,        \* parsed_data['contact_info']
    education_list,      \* parsed_data['education']
    paragraphs,          \* extract_experience: the paragraphs of the text
    para_idx,            \* extract_experience: index of the next paragraph
    experience_list,     \* extract_experience: entries flushed so far
    current_experience,  \* extract_experience: the open entry, or None
    result,              \* what the last parse_resume call returned
    now,                 \* the clock datetime.now() reads
    invoked,             \* history: the arguments of the parse_resume calls
    returned,            \* history: the completed parse_resume calls
    file_idx,            \* main: index of the file being processed, 0 outside main
    success_count,       \* main
    failed_count,        \* main
    written,             \* the JSON files in the output directory
    tally_log,           \* history: how main counted each file
    tally,               \* the tally main reported, or None
    model_installed,     \* is the package en_core_web_sm installed
    load_log,            \* history: the spacy.load and download calls
    session,             \* app.py: the Flask session of the client
    uploads,             \* app.py: the names of the files in UPLOAD_FOLDER
    response,            \* app.py: the response to the last request
    accepted,            \* history: the email of the login POSTs accepted
    chain                \* history: the paths requested since the client's
                         \* last own request, redirects followed included

parserVars ==
    <<pdf_path, paragraphs, para_idx, experience_list, current_experience,
      result, now, invoked, returned>>

mainVars == <<file_idx, success_count, failed_count, written, tally_log, tally>>

loaderVars == <<model_installed, load_log>>

webVars == <<session, uploads, response, accepted, chain>>

\* the state outside the parser and the batch driver
outerVars == <<loaderVars, webVars>>

vars ==
    <<nlp, pdf_files, pc, text, contact_info, education_list, parserVars, mainVars,
      outerVars>>

\* None where a string is expected
Null == "None"

\* None where a dict is expected
NoResult == [None |-> TRUE]

-----------------------------------------------------------------------------
(* Characters and str methods *)

UPPER == "ABCDEFGHIJKLMNOPQRSTUVWXYZ"

LOWER == "abcdefghijklmnopqrstuvwxyz"

DIGITS == "0123456789"

Ch(s, i) == SubSeq(s, i, i)

Chars(s) == {Ch(s, i) : i \in 1..Len(s)}

\* \s, and the characters str.strip() removes
WS == {" ", "\t", "\n", "\r", "\f"}

UPPERS == Chars(UPPER)

\* \d
DIGIT == Chars(DIGITS)

ALPHA == UPPERS \cup Chars(LOWER)

\* \w
WORD == ALPHA \cup DIGIT \cup {"_"}

LowerCh(c) ==
    IF c \in UPPERS
    THEN Ch(LOWER, CHOOSE i \in 1..Len(UPPER) : Ch(UPPER, i) = c)
    ELSE c

RECURSIVE Lower(_)
\* str.lower()
Lower(s) == IF s = "" THEN "" ELSE LowerCh(Head(s)) \o Lower(Tail(s))

RECURSIVE LStrip(_)
LStrip(s) == IF s # "" /\ Head(s) \in WS THEN LStrip(Tail(s)) ELSE s

RECURSIVE RStrip(_)
RStrip(s) ==
    IF s # "" /\ Ch(s, Len(s)) \in WS THEN RStrip(SubSeq(s, 1, Len(s) - 1)) ELSE s

\* str.strip()
Strip(s) == RStrip(LStrip(s))

StartsAt(s, i, lit) ==
    i + Len(lit) - 1 <= Len(s) /\ SubSeq(s, i, i + Len(lit) - 1) = lit

\* sub in s
Contains(s, sub) == \E i \in 1..(Len(s) - Len(sub) + 1) : StartsAt(s, i, sub)

RECURSIVE SplitFrom(_, _, _, _)
SplitFrom(s, sep, i, start) ==
    IF i > Len(s) - Len(sep) + 1
    THEN <<SubSeq(s, start, Len(s))>>
    ELSE IF StartsAt(s, i, sep)
         THEN <<SubSeq(s, start, i - 1)>>
              \o SplitFrom(s, sep, i + Len(sep), i + Len(sep))
         ELSE SplitFrom(s, sep, i + 1, start)

\* str.split(sep): cut at the non-overlapping occurrences of sep, left to right
Split(s, sep) == SplitFrom(s, sep, 1, 1)

-----------------------------------------------------------------------------
(* Regular expressions (Python re): a pattern is a tree; Ends(p, s, i) is   *)
(* the sequence of positions at which a match of p that starts at i can    *)
(* end, in the order backtracking tries them, so its head is the match.    *)

Lit(str) == [t |-> "lit", s |-> str]

Cls(set) == [t |-> "cls", c |-> set]

Cat(pats) == [t |-> "cat", ps |-> pats]

Alt(pats) == [t |-> "alt", ps |-> pats]

\* greedy p{lo,hi}
Rep(pat, low, high) == [t |-> "rep", p |-> pat, lo |-> low, hi |-> high]

Opt(pat) == Rep(pat, 0, 1)

\* \b
WordB == [t |-> "wb"]

\* stands for "no upper limit" in {n,} and +
Many == 100000

IsWordAt(s, i) == i >= 1 /\ i <= Len(s) /\ Ch(s, i) \in WORD

RECURSIVE Ends(_, _, _)
RECURSIVE CatEnds(_, _, _, _)
RECURSIVE CatOver(_, _, _, _, _)
RECURSIVE AltEnds(_, _, _, _)
RECURSIVE RepEnds(_, _, _, _)
RECURSIVE RepOver(_, _, _, _, _)

Ends(p, s, i) ==
    CASE p.t = "lit" -> IF StartsAt(s, i, p.s) THEN <<i + Len(p.s)>> ELSE <<>>
      [] p.t = "cls" -> IF i <= Len(s) /\ Ch(s, i) \in p.c THEN <<i + 1>> ELSE <<>>
      [] p.t = "wb"  -> IF IsWordAt(s, i - 1) # IsWordAt(s, i) THEN <<i>> ELSE <<>>
      [] p.t = "cat" -> CatEnds(p.ps, 1, s, i)
      [] p.t = "alt" -> AltEnds(p.ps, 1, s, i)
      [] p.t = "rep" -> RepEnds(p, 0, s, i)

CatEnds(ps, k, s, i) ==
    IF k > Len(ps) THEN <<i>> ELSE CatOver(ps, k, s, Ends(ps[k], s, i), 1)

CatOver(ps, k, s, es, j) ==
    IF j > Len(es) THEN <<>>
    ELSE CatEnds(ps, k + 1, s, es[j]) \o CatOver(ps, k, s, es, j + 1)

AltEnds(ps, k, s, i) ==
    IF k > Len(ps) THEN <<>> ELSE Ends(ps[k], s, i) \o AltEnds(ps, k + 1, s, i)

RepEnds(p, n, s, i) ==
    (IF n < p.hi THEN RepOver(p, n, s, SelectSeq(Ends(p.p, s, i), LAMBDA e : e > i), 1)
     ELSE <<>>)
    \o (IF n >= p.lo THEN <<i>> ELSE <<>>)

RepOver(p, n, s, es, j) ==
    IF j > Len(es) THEN <<>>
    ELSE RepEnds(p, n + 1, s, es[j]) \o RepOver(p, n, s, es, j + 1)

NoMatch == [start |-> 0, end |-> 0]

MatchAt(p, s, i) == Ends(p, s, i) # <<>>

RECURSIVE FirstStartIn(_, _, _, _)
\* the leftmost position of lo..hi at which p matches, 0 if there is none
\* (the scan is halved, so that its depth stays small on long texts)
FirstStartIn(p, s, lo, hi) ==
    IF lo > hi THEN 0
    ELSE IF lo = hi THEN (IF MatchAt(p, s, lo) THEN lo ELSE 0)
    ELSE LET mid  == (lo + hi) \div 2
             left == FirstStartIn(p, s, lo, mid)
         IN  IF left # 0 THEN left ELSE FirstStartIn(p, s, mid + 1, hi)

\* the leftmost match of p in s that starts at or after i
SearchFrom(p, s, i) ==
    LET j == FirstStartIn(p, s, i, Len(s) + 1)
    IN  IF j = 0 THEN NoMatch ELSE [start |-> j, end |-> Ends(p, s, j)[1]]

\* re.search(p, s)
re_search(p, s) == SearchFrom(p, s, 1)

\* match.group()
Group(s, m) == SubSeq(s, m.start, m.end - 1)

RECURSIVE FindAllFrom(_, _, _)
FindAllFrom(p, s, i) ==
    LET m == SearchFrom(p, s, i)
    IN  IF m = NoMatch THEN <<>>
        ELSE <<Group(s, m)>>
             \o FindAllFrom(p, s, IF m.end > m.start THEN m.end ELSE m.end + 1)

\* re.findall(p, s) for a pattern without capturing groups
re_findall(p, s) == FindAllFrom(p, s, 1)

-----------------------------------------------------------------------------
(* ResumeParser.__init__: the patterns *)

EMAIL_PATTERN ==
    Cat(<<WordB,
          Rep(Cls(ALPHA \cup DIGIT \cup {".", "_", "%", "+", "-"}), 1, Many),
          Lit("@"),
          Rep(Cls(ALPHA \cup DIGIT \cup {".", "-"}), 1, Many),
          Lit("."),
          Rep(Cls(ALPHA \cup {"|"}), 2, Many),
          WordB>>)

PHONE_PATTERN ==
    Cat(<<Opt(Cat(<<Lit("+"), Rep(Cls(DIGIT), 1, 3), Opt(Cls({"-", "."} \cup WS))>>)),
          Opt(Lit("(")),
          Rep(Cls(DIGIT), 3, 3),
          Opt(Lit(")")),
          Opt(Cls({"-", "."} \cup WS)),
          Rep(Cls(DIGIT), 3, 3),
          Opt(Cls({"-", "."} \cup WS)),
          Rep(Cls(DIGIT), 4, 4)>>)

LINKEDIN_PATTERN ==
    Cat(<<Lit("linkedin.com/in/"), Rep(Cls(WORD \cup {"-"}), 1, Many)>>)

GITHUB_PATTERN ==
    Cat(<<Lit("github.com/"), Rep(Cls(WORD \cup {"-"}), 1, Many)>>)

DATE_PATTERN ==
    Cat(<<Alt(<<Cat(<<Lit("Jan"), Opt(Lit("uary"))>>),
                Cat(<<Lit("Feb"), Opt(Lit("ruary"))>>),
                Cat(<<Lit("Mar"), Opt(Lit("ch"))>>),
                Cat(<<Lit("Apr"), Opt(Lit("il"))>>),
                Lit("May"),
                Cat(<<Lit("Jun"), Opt(Lit("e"))>>),
                Cat(<<Lit("Jul"), Opt(Lit("y"))>>),
                Cat(<<Lit("Aug"), Opt(Lit("ust"))>>),
                Cat(<<Lit("Sep"), Opt(Lit("tember"))>>),
                Cat(<<Lit("Oct"), Opt(Lit("ober"))>>),
                Cat(<<Lit("Nov"), Opt(Lit("ember"))>>),
                Cat(<<Lit("Dec"), Opt(Lit("ember"))>>)>>),
          Rep(Cls(WS), 1, Many),
          Rep(Cls(DIGIT), 4, 4)>>)

EDUCATION_TERMS ==
    <<"bachelor", "master", "phd", "doctorate", "bs", "ms", "ba", "ma",
      "b.tech", "m.tech", "b.e.", "m.e.", "b.sc", "m.sc",
      "university", "college", "institute", "school">>

\* the pattern of the trigger test in extract_experience
TRIGGER_PATTERN ==
    Alt(<<Cat(<<Alt(<<Lit("19"), Lit("20")>>), Rep(Cls(DIGIT), 2, 2)>>),
          Lit("present"),
          Lit("current")>>)

-----------------------------------------------------------------------------
(* The NER engine (spaCy): nlp(s).ents.  The engine is a black box; a model *)
(* of it assigns a label to each surface form it knows ("O": not an        *)
(* entity), and the entities of a text are the occurrences of those forms  *)
(* in the order they appear.                                               *)

EntityTokens == {"Acme", "Paris"}

Labels == {"ORG", "GPE", "LOC", "O"}

NlpModels == [EntityTokens -> Labels]

\* the models that differ on the given surface forms only
NlpModelsOn(tokens) ==
    {m \in NlpModels : \A tok \in EntityTokens \ tokens : m[tok] = "O"}

RECURSIVE FirstTokenIn(_, _, _)
\* the leftmost position of lo..hi at which a known surface form stands, 0 if
\* there is none
FirstTokenIn(s, lo, hi) ==
    IF lo > hi THEN 0
    ELSE IF lo = hi
         THEN (IF \E tok \in EntityTokens : StartsAt(s, lo, tok) THEN lo ELSE 0)
    ELSE LET mid  == (lo + hi) \div 2
             left == FirstTokenIn(s, lo, mid)
         IN  IF left # 0 THEN left ELSE FirstTokenIn(s, mid + 1, hi)

RECURSIVE EntsFrom(_, _, _)
EntsFrom(model, s, i) ==
    LET j == FirstTokenIn(s, i, Len(s))
    IN  IF j = 0 THEN <<>>
        ELSE LET tok == CHOOSE h \in EntityTokens : StartsAt(s, j, h)
             IN  (IF model[tok] = "O" THEN <<>>
                  ELSE <<[text |-> tok, label_ |-> model[tok]]>>)
                 \o EntsFrom(model, s, j + Len(tok))

\* nlp(s).ents
Ents(model, s) == EntsFrom(model, s, 1)

RECURSIVE FirstEnt(_, _, _)
\* for ent in doc.ents: if ent.label_ in labels: ... = ent.text; break
FirstEnt(ents, labels, k) ==
    IF k > Len(ents) THEN Null
    ELSE IF ents[k].label_ \in labels THEN ents[k].text
         ELSE FirstEnt(ents, labels, k + 1)

\* Python truthiness of an Optional[str]
Truthy(v) == v # Null /\ v # ""

-----------------------------------------------------------------------------
(* ResumeParser.extract_contact_info *)

\* m = re.search(p, text); the field is m.group() if m else None
FirstMatchLate(p, s) ==
    LET all == re_findall(p, s) IN IF all = <<>> THEN Null ELSE all[Len(all)]

FirstMatch(p, s) ==
    LET m == re_search(p, s) IN IF m = NoMatch THEN Null ELSE Group(s, m)

\* text[:1000]
LocationWindow == 1000

PrefixWhole(s, n) == s

Prefix(s, n) == SubSeq(s, 1, IF Len(s) < n THEN Len(s) ELSE n)

extract_contact_info(model, s) ==
    [email    |-> FirstMatch(EMAIL_PATTERN, s),
     phone    |-> FirstMatch(PHONE_PATTERN, s),
     linkedin |-> FirstMatch(LINKEDIN_PATTERN, s),
     github   |-> FirstMatch(GITHUB_PATTERN, s),
     location |-> FirstEnt(Ents(model, Prefix(s, LocationWindow)), {"GPE", "LOC"}, 1)]

-----------------------------------------------------------------------------
(* ResumeParser.extract_education *)

\* any(term in s.lower() for term in self.EDUCATION_TERMS)
HasEducationTerm(s) ==
    LET low == Lower(s)
    IN  \E k \in 1..Len(EDUCATION_TERMS) : Contains(low, EDUCATION_TERMS[k])

RECURSIVE DegreeLineCaseSensitive(_, _)
DegreeLineCaseSensitive(lines, k) ==
    IF k > Len(lines) THEN Null
    ELSE IF \E t \in 1..Len(EDUCATION_TERMS) : Contains(lines[k], EDUCATION_TERMS[t])
         THEN Strip(lines[k])
         ELSE DegreeLineCaseSensitive(lines, k + 1)

RECURSIVE DegreeLine(_, _)
\* the first line that contains an education term, stripped
DegreeLine(lines, k) ==
    IF k > Len(lines) THEN Null
    ELSE IF HasEducationTerm(lines[k]) THEN Strip(lines[k])
         ELSE DegreeLine(lines, k + 1)

GraduationDateFirst(paragraph) ==
    LET dates == re_findall(DATE_PATTERN, paragraph)
    IN  IF dates # <<>> THEN dates[1] ELSE Null

\* dates = re.findall(...); if dates: graduation_date = dates[-1]
GraduationDate(paragraph) ==
    LET dates == re_findall(DATE_PATTERN, paragraph)
    IN  IF dates # <<>> THEN dates[Len(dates)] ELSE Null

\* the education_info built for one qualified paragraph
EducationInfo(model, paragraph) ==
    [degree          |-> DegreeLine(Split(paragraph, "\n"), 1),
     institution     |-> FirstEnt(Ents(model, paragraph), {"ORG"}, 1),
     graduation_date |-> GraduationDate(paragraph),
     gpa             |-> Null]

RECURSIVE EducationScanUnfiltered(_, _, _)
EducationScanUnfiltered(model, pars, k) ==
    IF k > Len(pars) THEN <<>>
    ELSE <<EducationInfo(model, pars[k])>>
         \o EducationScanUnfiltered(model, pars, k + 1)

RECURSIVE EducationScan(_, _, _)
\* the loop over the pars
EducationScan(model, pars, k) ==
    IF k > Len(pars) THEN <<>>
    ELSE LET info == EducationInfo(model, pars[k])
         IN  (IF /\ HasEducationTerm(pars[k])
                 /\ (Truthy(info.degree) \/ Truthy(info.institution))
              THEN <<info>> ELSE <<>>)
             \o EducationScan(model, pars, k + 1)

extract_education_unfiltered(model, s) ==
    EducationScanUnfiltered(model, Split(s, "\n\n"), 1)

extract_education(model, s) == EducationScan(model, Split(s, "\n\n"), 1)

-----------------------------------------------------------------------------
(* State before any parse_resume call and before main runs *)

ParserFresh ==
    /\ pdf_path = 0
    /\ contact_info = NoResult
    /\ education_list = <<>>
    /\ paragraphs = <<>>
    /\ para_idx = 0
    /\ experience_list = <<>>
    /\ current_experience = NoResult
    /\ result = NoResult
    /\ now = 0
    /\ invoked = <<>>
    /\ returned = <<>>

MainFresh ==
    /\ file_idx = 0
    /\ success_count = 0
    /\ failed_count = 0
    /\ written = {}
    /\ tally_log = <<>>
    /\ tally = NoResult

\* one call of spacy.load or spacy.cli.download: whether the package was
\* installed when it was made, and whether it succeeded
LoadEvent(call, present, success) ==
    [op |-> call, installed |-> present, ok |-> success]

\* the module was imported with the package installed
EngineLoaded ==
    /\ model_installed = TRUE
    /\ load_log = <<LoadEvent("load", TRUE, TRUE)>>

\* a session without keys
EmptySession == [key \in {} |-> TRUE]

\* app.py before the first request
WebFresh ==
    /\ session = EmptySession
    /\ uploads = {}
    /\ response = NoResult
    /\ accepted = <<>>
    /\ chain = <<>>

-----------------------------------------------------------------------------
(* Input texts: fragments joined by separators *)

RECURSIVE Joined(_, _, _)
\* the texts made of at most n fragments
Joined(frags, seps, n) ==
    IF n = 0 THEN {""}
    ELSE LET shorter == Joined(frags, seps, n - 1)
         IN  shorter \cup frags
             \cup {t \o s \o f : t \in shorter \ {""}, s \in seps, f \in frags}

MaxContactFrags == 2

ContactFrags ==
    {"555-111-2222", "(555) 333-4444", "a@b.co", "c.d@e.org",
     "linkedin.com/in/al", "linkedin.com/in/bo", "github.com/al", "github.com/bo-b",
     "Paris", "Acme"}

RECURSIVE Pad(_)
\* n spaces
Pad(n) ==
    IF n = 0 THEN ""
    ELSE LET half == Pad(n \div 2) IN half \o half \o (IF n % 2 = 1 THEN " " ELSE "")

\* texts longer than the location window: a place that ends with the window,
\* one that straddles its end, and one after it that follows a known name
LongContactTexts ==
    {Pad(LocationWindow - 5) \o "Paris",
     Pad(LocationWindow - 4) \o "Paris",
     "Acme" \o Pad(LocationWindow - 4) \o "Paris"}

ContactTexts == Joined(ContactFrags, {" "}, MaxContactFrags) \cup LongContactTexts

-----------------------------------------------------------------------------
(* extract_contact_info applied to a text *)

InitContact ==
    /\ nlp \in NlpModels
    /\ text \in ContactTexts
    /\ pc = "call"
    /\ pdf_files = <<>>
    /\ ParserFresh
    /\ MainFresh
    /\ EngineLoaded
    /\ WebFresh

ContactCall ==
    /\ pc = "call"
    /\ contact_info' = extract_contact_info(nlp, text)
    /\ pc' = "return"
    /\ UNCHANGED <<outerVars, nlp, pdf_files, text, education_list, parserVars, mainVars>>

NextContact == ContactCall

SpecContact == InitContact /\ [][NextContact]_vars

-----------------------------------------------------------------------------
(* Claims about extract_contact_info *)

\* the start positions of the matches of p in s
MatchStarts(p, s) == {i \in 1..(Len(s) + 1) : MatchAt(p, s, i)}

\* v is the match that starts at the leftmost position of s where p matches,
\* and None when p matches nowhere
IsLeftmostMatch(v, p, s) ==
    LET starts == MatchStarts(p, s)
    IN  IF starts = {} THEN v = Null
        ELSE /\ v # Null
             /\ \E i \in starts :
                   /\ \A j \in starts : i <= j
                   /\ StartsAt(s, i, v)
                   /\ Len(v) = Ends(p, s, i)[1] - i

\* C6: each of email, phone, linkedin and github is the leftmost match of its
\* pattern in the whole text, a single string, and None iff the pattern
\* matches nowhere.
C6_FirstMatchWins ==
    pc = "return" =>
        /\ IsLeftmostMatch(contact_info.email, EMAIL_PATTERN, text)
        /\ IsLeftmostMatch(contact_info.phone, PHONE_PATTERN, text)
        /\ IsLeftmostMatch(contact_info.linkedin, LINKEDIN_PATTERN, text)
        /\ IsLeftmostMatch(contact_info.github, GITHUB_PATTERN, text)

\* two phone numbers in one text: the first one is taken
C6_Witness ==
    /\ pc = "return"
    /\ text = "555-111-2222 (555) 333-4444"
    /\ contact_info.phone = "555-111-2222"
    /\ contact_info.email = Null

\* the entity of s with a label among labels that stands first in the first
\* window characters of s, None if there is none
FirstLabelled(model, s, labels, window) ==
    LET at(i) == {tok \in EntityTokens :
                    /\ StartsAt(s, i, tok)
                    /\ i + Len(tok) - 1 <= window
                    /\ model[tok] \in labels}
        hits  == {i \in 1..Len(s) : at(i) # {}}
    IN  IF hits = {} THEN Null
        ELSE CHOOSE tok \in at(CHOOSE a \in hits : \A b \in hits : a <= b) : TRUE

\* C14: location is the first entity, in text order, labelled GPE or LOC
\* among the entities that lie in the first 1000 characters of the text;
\* entities with other labels before it are skipped, text after character
\* 1000 adds nothing, and location is None iff there is no such entity.
C14_LocationInWindow ==
    pc = "return" =>
        contact_info.location =
            FirstLabelled(nlp, text, {"GPE", "LOC"}, LocationWindow)

\* an organization at the start and the only place after character 1000:
\* no location
C14_Witness ==
    /\ pc = "return"
    /\ text = "Acme" \o Pad(LocationWindow - 4) \o "Paris"
    /\ nlp = [Acme |-> "ORG", Paris |-> "GPE"]
    /\ contact_info.location = Null

\* an organization before the place, both in the window: the place
C14_WitnessSkipped ==
    /\ pc = "return"
    /\ text = "Acme Paris"
    /\ nlp = [Acme |-> "ORG", Paris |-> "LOC"]
    /\ contact_info.location = "Paris"

-----------------------------------------------------------------------------
(* extract_education applied to a text *)

MaxEducationFrags == 3

EducationFrags == {" PhD Acme", "Sep 2016", "May 2020", "Led team"}

EducationTexts == Joined(EducationFrags, {"\n", "\n\n"}, MaxEducationFrags)

InitEducation ==
    /\ nlp \in NlpModelsOn({"Acme"})
    /\ text \in EducationTexts
    /\ pc = "call"
    /\ pdf_files = <<>>
    /\ ParserFresh
    /\ MainFresh
    /\ EngineLoaded
    /\ WebFresh

EducationCall ==
    /\ pc = "call"
    /\ education_list' = extract_education(nlp, text)
    /\ pc' = "return"
    /\ UNCHANGED <<outerVars, nlp, pdf_files, text, contact_info, parserVars, mainVars>>

NextEducation == EducationCall

SpecEducation == InitEducation /\ [][NextEducation]_vars

-----------------------------------------------------------------------------
(* Claims about extract_education *)

\* the paragraphs of s that contain an education term, in document order
QualifiedParagraphs(s) == SelectSeq(Split(s, "\n\n"), HasEducationTerm)

\* C5: every returned education entry has a degree or an institution.
C5_DegreeOrInstitution ==
    pc = "return" =>
        \A k \in 1..Len(education_list) :
            education_list[k].degree # Null \/ education_list[k].institution # Null

\* a paragraph with a keyword and no organization gives an entry kept for its
\* degree alone, next to a paragraph without keyword that gives none
C5_Witness ==
    /\ pc = "return"
    /\ text = "Led team\n\n PhD Acme"
    /\ nlp["Acme"] = "O"
    /\ Len(education_list) = 1
    /\ education_list[1].degree = "PhD Acme"
    /\ education_list[1].institution = Null

\* the date match of paragraph p that starts last, None if there is none
LastDateOf(p) ==
    LET starts == MatchStarts(DATE_PATTERN, p)
    IN  IF starts = {} THEN Null
        ELSE LET i == CHOOSE a \in starts : \A b \in starts : b <= a
             IN  SubSeq(p, i, Ends(DATE_PATTERN, p, i)[1] - 1)

\* C10: the graduation_date of the entry of a qualified paragraph is the last
\* date match of that paragraph, None iff the paragraph has no date match.
C10_LastDateOfParagraph ==
    pc = "return" =>
        LET qs == QualifiedParagraphs(text)
        IN  /\ Len(education_list) = Len(qs)
            /\ \A k \in 1..Len(qs) :
                  education_list[k].graduation_date = LastDateOf(qs[k])

\* one paragraph with two dates, and an earlier paragraph with a keyword
\* ("ma" in "May") whose own date is the only one it gets
C10_WitnessOwnDate ==
    /\ pc = "return"
    /\ text = "May 2020\n\n PhD Acme\nSep 2016"
    /\ Len(education_list) = 2
    /\ education_list[1].graduation_date = "May 2020"
    /\ education_list[2].graduation_date = "Sep 2016"

\* two dates in one paragraph: the later one is the graduation date
C10_WitnessTwoDates ==
    /\ pc = "return"
    /\ text = " PhD Acme\nSep 2016\nMay 2020"
    /\ Len(education_list) = 1
    /\ education_list[1].graduation_date = "May 2020"

\* C17: every paragraph with an education keyword gives exactly one entry,
\* whose degree is not None and is the trimmed first line of the paragraph
\* that holds a keyword; so there are as many entries as such paragraphs and
\* none is dropped, whatever the NER engine finds.
C17_QualifiedGivesDegree ==
    pc = "return" =>
        LET qs == QualifiedParagraphs(text)
        IN  /\ Len(education_list) = Len(qs)
            /\ \A k \in 1..Len(qs) :
                  LET lines == Split(qs[k], "\n")
                      hits  == {j \in 1..Len(lines) : HasEducationTerm(lines[j])}
                  IN  /\ hits # {}
                      /\ education_list[k].degree # Null
                      /\ education_list[k].degree =
                            Strip(lines[CHOOSE a \in hits : \A b \in hits : a <= b])

\* two paragraphs with a keyword, the keyword of the first on its second line,
\* and no organization found: two entries, each with its degree line trimmed
C17_Witness ==
    /\ pc = "return"
    /\ text = "Led team\n PhD Acme\n\nMay 2020"
    /\ nlp["Acme"] = "O"
    /\ Len(education_list) = 2
    /\ education_list[1].degree = "PhD Acme"
    /\ education_list[1].institution = Null
    /\ education_list[2].degree = "May 2020"

-----------------------------------------------------------------------------
(* PDF files and pdfplumber: a file is readable or not, and a readable file *)
(* has pages, each with the text page.extract_text() returns.              *)

RECURSIVE JoinLines(_, _)
\* '\n'.join(pages)
JoinLines(pages, k) ==
    IF k > Len(pages) THEN ""
    ELSE pages[k] \o (IF k < Len(pages) THEN "\n" ELSE "") \o JoinLines(pages, k + 1)

RECURSIVE ConcatLines(_, _)
\* text = ''; for page in pages: text += page + '\n'
ConcatLines(pages, k) ==
    IF k > Len(pages) THEN "" ELSE pages[k] \o "\n" \o ConcatLines(pages, k + 1)

extract_text_from_pdf(file) ==
    IF file.readable THEN JoinLines(file.pages, 1) ELSE ""

verify_pdf(file) ==
    file.readable /\ Strip(ConcatLines(file.pages, 1)) # ""

-----------------------------------------------------------------------------
(* ResumeParser.extract_experience, one step per paragraph *)

\* re.search(r'(19|20)\d{2}|present|current', paragraph.lower())
IsTrigger(paragraph) == re_search(TRIGGER_PATTERN, Lower(paragraph)) # NoMatch

NewExperienceAnyEntity(model, paragraph) ==
    [title       |-> Strip(Split(paragraph, "\n")[1]),
     company     |-> FirstEnt(Ents(model, paragraph), {"ORG", "GPE", "LOC"}, 1),
     dates       |-> re_findall(DATE_PATTERN, paragraph),
     description |-> <<>>]

\* the entry a trigger paragraph opens
NewExperience(model, paragraph) ==
    [title       |-> Strip(Split(paragraph, "\n")[1]),
     company     |-> FirstEnt(Ents(model, paragraph), {"ORG"}, 1),
     dates       |-> re_findall(DATE_PATTERN, paragraph),
     description |-> <<>>]

\* if current_experience: experience_list.append(current_experience)
Flushed == 
    IF current_experience # NoResult
    THEN Append(experience_list, current_experience)
    ELSE experience_list

-----------------------------------------------------------------------------
(* ResumeParser.parse_resume *)

PARSER_VERSION == "1.0.0"

\* Path(pdf_path).name
FileName(file) == file.stem \o ".pdf"

\* the call on file i, which read text t, gives v back to its caller
ReturnOf(i, t, v) ==
    /\ result' = v
    /\ returned' = Append(returned, [pdf_path |-> i, text |-> t, result |-> v])
    /\ pc' = IF file_idx > 0 THEN "main_result" ELSE "idle"

Return(v) == ReturnOf(pdf_path, text, v)

\* an exception of class cls leaving a function
Raised(cls) == [raised |-> cls]

ParseExceptMissing(e) == e

\* except Exception as e: logger.error(...); return None
ParseExcept(e) == NoResult

\* the call, extract_text_from_pdf and the test of its result
ParseEnter(i) ==
    /\ pdf_path' = i
    /\ invoked' = Append(invoked, i)
    /\ text' = extract_text_from_pdf(pdf_files[i])
    /\ IF extract_text_from_pdf(pdf_files[i]) = ""
       THEN ReturnOf(i, "", ParseExcept(Raised("ValueError")))
       ELSE pc' = "contact" /\ UNCHANGED <<result, returned>>
    /\ UNCHANGED <<outerVars, nlp, pdf_files, contact_info, education_list, paragraphs,
                   para_idx, experience_list, current_experience, now, mainVars>>

\* 'contact_info': self.extract_contact_info(text); an exception raised in it
\* is caught by parse_resume
ParseContact ==
    /\ pc = "contact"
    /\ \E fault \in BOOLEAN :
          IF fault
          THEN Return(ParseExcept(Raised("Exception"))) /\ UNCHANGED contact_info
          ELSE /\ contact_info' = extract_contact_info(nlp, text)
               /\ pc' = "education"
               /\ UNCHANGED <<result, returned>>
    /\ UNCHANGED <<outerVars, nlp, pdf_files, pdf_path, text, education_list, paragraphs,
                   para_idx, experience_list, current_experience, now, invoked,
                   mainVars>>

\* 'education': self.extract_education(text)
ParseEducation ==
    /\ pc = "education"
    /\ \E fault \in BOOLEAN :
          IF fault
          THEN Return(ParseExcept(Raised("Exception"))) /\ UNCHANGED education_list
          ELSE /\ education_list' = extract_education(nlp, text)
               /\ pc' = "experience"
               /\ UNCHANGED <<result, returned>>
    /\ UNCHANGED <<outerVars, nlp, pdf_files, pdf_path, text, contact_info, paragraphs,
                   para_idx, experience_list, current_experience, now, invoked,
                   mainVars>>

ExperienceEnterStale ==
    /\ pc = "experience"
    /\ paragraphs' = Split(text, "\n\n")
    /\ para_idx' = 1
    /\ pc' = "paragraph"
    /\ UNCHANGED <<outerVars, nlp, pdf_files, pdf_path, text, contact_info, education_list,
                   experience_list, current_experience, result, now, invoked,
                   returned, mainVars>>

\* 'experience': self.extract_experience(text), up to the loop
ExperienceEnter ==
    /\ pc = "experience"
    /\ experience_list' = <<>>
    /\ paragraphs' = Split(text, "\n\n")
    /\ current_experience' = NoResult
    /\ para_idx' = 1
    /\ pc' = "paragraph"
    /\ UNCHANGED <<outerVars, nlp, pdf_files, pdf_path, text, contact_info, education_list,
                   result, now, invoked, returned, mainVars>>

\* a trigger paragraph: flush the open entry and open a new one
ExperienceTrigger ==
    /\ pc = "paragraph"
    /\ para_idx <= Len(paragraphs)
    /\ IsTrigger(paragraphs[para_idx])
    /\ experience_list' = Flushed
    /\ \E fault \in BOOLEAN :
          IF fault
          THEN /\ Return(ParseExcept(Raised("Exception")))
               /\ UNCHANGED <<current_experience, para_idx>>
          ELSE /\ current_experience' = NewExperience(nlp, paragraphs[para_idx])
               /\ para_idx' = para_idx + 1
               /\ UNCHANGED <<pc, result, returned>>
    /\ UNCHANGED <<outerVars, nlp, pdf_files, pdf_path, text, contact_info, education_list,
                   paragraphs, now, invoked, mainVars>>

ExperienceDescribeRaw ==
    /\ pc = "paragraph"
    /\ para_idx <= Len(paragraphs)
    /\ ~IsTrigger(paragraphs[para_idx])
    /\ current_experience # NoResult
    /\ current_experience' =
          [current_experience EXCEPT !.description = Append(@, paragraphs[para_idx])]
    /\ para_idx' = para_idx + 1
    /\ UNCHANGED <<outerVars, nlp, pdf_files, pc, pdf_path, text, contact_info,
                   education_list, paragraphs, experience_list, result, now,
                   invoked, returned, mainVars>>

\* a paragraph that is no trigger, while an entry is open
ExperienceDescribe ==
    /\ pc = "paragraph"
    /\ para_idx <= Len(paragraphs)
    /\ ~IsTrigger(paragraphs[para_idx])
    /\ current_experience # NoResult
    /\ current_experience' =
          [current_experience EXCEPT
              !.description = Append(@, Strip(paragraphs[para_idx]))]
    /\ para_idx' = para_idx + 1
    /\ UNCHANGED <<outerVars, nlp, pdf_files, pc, pdf_path, text, contact_info,
                   education_list, paragraphs, experience_list, result, now,
                   invoked, returned, mainVars>>

ExperienceSkipOpens ==
    /\ pc = "paragraph"
    /\ para_idx <= Len(paragraphs)
    /\ ~IsTrigger(paragraphs[para_idx])
    /\ current_experience = NoResult
    /\ current_experience' =
          [title |-> Null, company |-> Null, dates |-> <<>>,
           description |-> <<Strip(paragraphs[para_idx])>>]
    /\ para_idx' = para_idx + 1
    /\ UNCHANGED <<outerVars, nlp, pdf_files, pc, pdf_path, text, contact_info,
                   education_list, paragraphs, experience_list, result, now,
                   invoked, returned, mainVars>>

\* a paragraph that is no trigger, while no entry is open
ExperienceSkip ==
    /\ pc = "paragraph"
    /\ para_idx <= Len(paragraphs)
    /\ ~IsTrigger(paragraphs[para_idx])
    /\ current_experience = NoResult
    /\ para_idx' = para_idx + 1
    /\ UNCHANGED <<outerVars, nlp, pdf_files, pc, pdf_path, text, contact_info,
                   education_list, paragraphs, experience_list,
                   current_experience, result, now, invoked, returned, mainVars>>

ExperienceReturnNoFlush ==
    /\ pc = "paragraph"
    /\ para_idx > Len(paragraphs)
    /\ pc' = "metadata"
    /\ UNCHANGED <<outerVars, nlp, pdf_files, pdf_path, text, contact_info, education_list,
                   paragraphs, para_idx, experience_list, current_experience,
                   result, now, invoked, returned, mainVars>>

\* after the loop: the last flush, and extract_experience returns
ExperienceReturn ==
    /\ pc = "paragraph"
    /\ para_idx > Len(paragraphs)
    /\ experience_list' = Flushed
    /\ pc' = "metadata"
    /\ UNCHANGED <<outerVars, nlp, pdf_files, pdf_path, text, contact_info, education_list,
                   paragraphs, para_idx, current_experience, result, now,
                   invoked, returned, mainVars>>

\* the metadata, and parse_resume returns parsed_data
ParseReturn ==
    /\ pc = "metadata"
    /\ now' = now + 1
    /\ Return([contact_info |-> contact_info,
               education    |-> education_list,
               experience   |-> experience_list,
               metadata     |-> [filename       |-> FileName(pdf_files[pdf_path]),
                                 parsed_date    |-> now,
                                 parser_version |-> PARSER_VERSION]])
    /\ UNCHANGED <<outerVars, nlp, pdf_files, pdf_path, text, contact_info, education_list,
                   paragraphs, para_idx, experience_list, current_experience,
                   invoked, mainVars>>

ParseSteps ==
    \/ ParseContact
    \/ ParseEducation
    \/ ExperienceEnter
    \/ ExperienceTrigger
    \/ ExperienceDescribe
    \/ ExperienceSkip
    \/ ExperienceReturn
    \/ ParseReturn

-----------------------------------------------------------------------------
(* A client that calls parse_resume on one parser, several times *)

MaxCalls == 2

MaxParagraphs == 3

ExperienceFrags == {"Dev\nAcme May 2019", "QA 2020", " Led team "}

ParserTexts == Joined(ExperienceFrags, {"\n\n"}, MaxParagraphs)

ParserPdfs ==
    {[stem |-> "cv", readable |-> TRUE, pages |-> <<t>>] : t \in ParserTexts \ {""}}
    \cup {[stem |-> "cv", readable |-> FALSE, pages |-> <<>>],
          [stem |-> "cv", readable |-> TRUE, pages |-> <<>>],
          [stem |-> "cv", readable |-> TRUE, pages |-> <<"", " ">>]}

Init ==
    /\ nlp \in NlpModelsOn({"Acme"})
    /\ \E file \in ParserPdfs : pdf_files = <<file>>
    /\ pc = "idle"
    /\ text = ""
    /\ ParserFresh
    /\ MainFresh
    /\ EngineLoaded
    /\ WebFresh

\* parser.parse_resume(path)
ClientCall ==
    /\ pc = "idle"
    /\ Len(invoked) < MaxCalls
    /\ \E i \in 1..Len(pdf_files) : ParseEnter(i)

Next == ClientCall \/ ParseSteps

Spec == Init /\ [][Next]_vars

-----------------------------------------------------------------------------
(* Claims about parse_resume and extract_experience *)

DocumentKeys == {"contact_info", "education", "experience", "metadata"}

IsDocument(r) == DOMAIN r = DocumentKeys

\* C1: every parse_resume call gives its caller a document with exactly the
\* four top-level keys, or None; an exception raised inside never reaches the
\* caller.
C1_NeverPropagates ==
    \A k \in 1..Len(returned) :
        returned[k].result = NoResult \/ IsDocument(returned[k].result)

\* a call that read a text and failed in an extractor, then a call that
\* returned a document
C1_Witness ==
    /\ Len(returned) = 2
    /\ returned[1].text # ""
    /\ returned[1].result = NoResult
    /\ IsDocument(returned[2].result)

\* C2 as stated: a text that is empty after stripping gives None.
C2_BlankTextGivesNone ==
    \A k \in 1..Len(returned) :
        Strip(returned[k].text) = "" => returned[k].result = NoResult

\* the indices of the trigger paragraphs among the first n paragraphs
TriggerIndices(pars, n) == {i \in 1..n : IsTrigger(pars[i])}

RECURSIVE Ascending(_)
\* the elements of a set of numbers, in ascending order
Ascending(set) ==
    IF set = {} THEN <<>>
    ELSE LET least == CHOOSE a \in set : \A b \in set : a <= b
         IN  <<least>> \o Ascending(set \ {least})

\* C3: the extractor returns exactly one entry per trigger paragraph, in the
\* order of those paragraphs (while it runs: one entry, flushed or open, per
\* trigger paragraph read so far), and none iff there is no trigger paragraph.
C3_OneEntryPerTrigger ==
    pc \in {"paragraph", "metadata"} =>
        LET pars  == Split(text, "\n\n")
            trigs == Ascending(TriggerIndices(pars, para_idx - 1))
            held  == IF pc = "paragraph" THEN Flushed ELSE experience_list
        IN  /\ Len(held) = Len(trigs)
            /\ \A k \in 1..Len(trigs) :
                  held[k].title = Strip(Split(pars[trigs[k]], "\n")[1])
            /\ (held = <<>>) <=> (trigs = <<>>)

\* two trigger paragraphs with a plain one between them: two entries, in order
C3_Witness ==
    /\ pc = "metadata"
    /\ text = "Dev\nAcme May 2019\n\n Led team \n\nQA 2020"
    /\ Len(experience_list) = 2
    /\ experience_list[1].title = "Dev"
    /\ experience_list[2].title = "QA 2020"

\* the stripped paragraphs pars[from..to]
RECURSIVE StrippedRange(_, _, _)
StrippedRange(pars, from, to) ==
    IF from > to THEN <<>>
    ELSE <<Strip(pars[from])>> \o StrippedRange(pars, from + 1, to)

\* the description of every returned entry is the stripped paragraphs between
\* its trigger paragraph and the next one (or the end of the text)
DescriptionsFollowTriggers ==
    pc = "metadata" =>
        LET pars  == Split(text, "\n\n")
            trigs == Ascending(TriggerIndices(pars, Len(pars)))
        IN  /\ Len(experience_list) = Len(trigs)
            /\ \A k \in 1..Len(trigs) :
                  experience_list[k].description =
                      StrippedRange(pars, trigs[k] + 1,
                                    IF k < Len(trigs) THEN trigs[k + 1] - 1
                                    ELSE Len(pars))

\* a step of the loop leaves the flushed entries as they are
FlushedEntriesKept ==
    pc = "paragraph" /\ pc' \in {"paragraph", "metadata"} =>
        /\ Len(experience_list') >= Len(experience_list)
        /\ \A k \in 1..Len(experience_list) : experience_list'[k] = experience_list[k]

\* C4: each returned entry's description is exactly the stripped non-trigger
\* paragraphs between its trigger paragraph and the next, in order, and a
\* flushed entry is never changed.
C4_Descriptions == []DescriptionsFollowTriggers /\ [][FlushedEntriesKept]_vars

\* the paragraph " Led team " lands, stripped, in the first entry only
C4_Witness ==
    /\ pc = "metadata"
    /\ text = "Dev\nAcme May 2019\n\n Led team \n\nQA 2020"
    /\ Len(experience_list) = 2
    /\ experience_list[1].description = <<"Led team">>
    /\ experience_list[2].description = <<>>

\* a document without the time it was made
Timeless(r) == [r EXCEPT !.metadata.parsed_date = 0]

\* C7: two calls on the same file with the same text that both return a
\* document return the same document, up to metadata.parsed_date.
C7_Idempotent ==
    \A j, k \in 1..Len(returned) :
        /\ returned[j].pdf_path = returned[k].pdf_path
        /\ returned[j].text = returned[k].text
        /\ IsDocument(returned[j].result)
        /\ IsDocument(returned[k].result)
        => Timeless(returned[j].result) = Timeless(returned[k].result)

\* two calls that returned documents with experience entries, made at
\* different times
C7_Witness ==
    /\ Len(returned) = 2
    /\ IsDocument(returned[1].result)
    /\ IsDocument(returned[2].result)
    /\ returned[1].result.experience # <<>>
    /\ returned[1].result.metadata.parsed_date
          # returned[2].result.metadata.parsed_date

-----------------------------------------------------------------------------
(* extract_experience applied to a text, one step per paragraph *)

MaxExperienceFrags == 2

ExperienceParagraphs ==
    {"Dev\nAcme May 2019", "Paris Acme\nMay 2019 - May 2019", " Led team ",
     "presentation", "a 120195 b"}

\* the separators between paragraphs: runs of two, three and four newlines
ExperienceSeps == {"\n\n", "\n\n\n", "\n\n\n\n"}

\* parse_resume passes no empty text on
ExperienceTexts ==
    Joined(ExperienceParagraphs, ExperienceSeps, MaxExperienceFrags) \ {""}

\* the models that tell the cases of the company field apart: the
\* organization found or missed, the place labelled a place or an organization
ExperienceModels ==
    {m \in NlpModels : m["Acme"] \in {"ORG", "O"} /\ m["Paris"] \in {"GPE", "ORG"}}

InitExperience ==
    /\ nlp \in ExperienceModels
    /\ text \in ExperienceTexts
    /\ pc = "experience"
    /\ pdf_files = <<>>
    /\ ParserFresh
    /\ MainFresh
    /\ EngineLoaded
    /\ WebFresh

NextExperience ==
    \/ ExperienceEnter
    \/ ExperienceTrigger
    \/ ExperienceDescribe
    \/ ExperienceSkip
    \/ ExperienceReturn

SpecExperience == InitExperience /\ [][NextExperience]_vars

-----------------------------------------------------------------------------
(* Claims about extract_experience *)

\* position i of s lies in a run of newlines that is at least two long
InBoundary(s, i) ==
    /\ i \in 1..Len(s)
    /\ Ch(s, i) = "\n"
    /\ \/ i > 1 /\ Ch(s, i - 1) = "\n"
       \/ i < Len(s) /\ Ch(s, i + 1) = "\n"

\* s[from..to] is a maximal stretch of s without a boundary position
IsStretch(s, from, to) ==
    /\ from <= to
    /\ \A i \in from..to : ~InBoundary(s, i)
    /\ from = 1 \/ InBoundary(s, from - 1)
    /\ to = Len(s) \/ InBoundary(s, to + 1)

\* the paragraphs of s when every maximal run of two or more newlines is one
\* boundary, in text order
BlankLineParagraphs(s) ==
    LET starts == {i \in 1..Len(s) : \E j \in i..Len(s) : IsStretch(s, i, j)}
        order  == Ascending(starts)
    IN  [k \in 1..Len(order) |->
            SubSeq(s, order[k], CHOOSE j \in order[k]..Len(s) : IsStretch(s, order[k], j))]

\* C11 as stated: the text is split at the maximal runs of two or more
\* newlines, so no paragraph is empty and none begins or ends with a newline
\* (the texts here neither begin nor end with a boundary).
C11_BlankLineBoundaries ==
    pc \in {"paragraph", "metadata"} =>
        /\ paragraphs = BlankLineParagraphs(text)
        /\ \A k \in 1..Len(paragraphs) :
              /\ paragraphs[k] # ""
              /\ Head(paragraphs[k]) # "\n"
              /\ Ch(paragraphs[k], Len(paragraphs[k])) # "\n"

\* s[i..i+3] is a run of exactly four digits that begins with 19 or 20
IsYearTokenAt(s, i) ==
    /\ i + 3 <= Len(s)
    /\ StartsAt(s, i, "19") \/ StartsAt(s, i, "20")
    /\ Ch(s, i + 2) \in DIGIT /\ Ch(s, i + 3) \in DIGIT
    /\ ~(i > 1 /\ Ch(s, i - 1) \in DIGIT)
    /\ ~(i + 4 <= Len(s) /\ Ch(s, i + 4) \in DIGIT)

\* word stands at s[i..] as a whole word
IsWholeWordAt(s, i, word) ==
    /\ StartsAt(s, i, word)
    /\ ~IsWordAt(s, i - 1)
    /\ ~IsWordAt(s, i + Len(word))

\* the trigger test as the claim words it
StatedTrigger(paragraph) ==
    LET low == Lower(paragraph)
    IN  \E i \in 1..Len(low) :
           \/ IsYearTokenAt(low, i)
           \/ IsWholeWordAt(low, i, "present")
           \/ IsWholeWordAt(low, i, "current")

\* C12 as stated: a paragraph opens an entry iff it holds a 4-digit token
\* beginning with 19 or 20 or the word "present" or "current"; an occurrence
\* inside a longer digit run or a longer word does not count.
C12_TokenOrWordTriggers ==
    pc \in {"paragraph", "metadata"} =>
        LET held == IF pc = "paragraph" THEN Flushed ELSE experience_list
        IN  Len(held) =
                Cardinality({i \in 1..(para_idx - 1) : StatedTrigger(paragraphs[i])})

\* a step that reads a paragraph which is no trigger while no entry is open
\* changes neither the entries nor the open entry
SkipChangesNothing ==
    /\ pc = "paragraph"
    /\ para_idx <= Len(paragraphs)
    /\ ~IsTrigger(paragraphs[para_idx])
    /\ current_experience = NoResult
    => /\ experience_list' = experience_list
       /\ current_experience' = current_experience

\* the number of paragraphs the entries hold: one for the title of each and
\* one for each item of its description
RECURSIVE ParagraphsHeld(_, _)
ParagraphsHeld(entries, k) ==
    IF k > Len(entries) THEN 0
    ELSE 1 + Len(entries[k].description) + ParagraphsHeld(entries, k + 1)

\* the returned entries hold the paragraphs from the first trigger paragraph
\* on and no other: none at all without a trigger paragraph
LeadingParagraphsDropped ==
    pc = "metadata" =>
        LET trigs == TriggerIndices(paragraphs, Len(paragraphs))
        IN  IF trigs = {} THEN experience_list = <<>>
            ELSE LET first == CHOOSE a \in trigs : \A b \in trigs : a <= b
                 IN  /\ ParagraphsHeld(experience_list, 1) = Len(paragraphs) - first + 1
                     /\ experience_list[1].title =
                            Strip(Split(paragraphs[first], "\n")[1])

\* C13: a paragraph that is no trigger, read while no entry is open, changes
\* nothing, so no paragraph before the first trigger paragraph lands in any
\* entry.
C13_LeadingParagraphsDiscarded ==
    [][SkipChangesNothing]_vars /\ []LeadingParagraphsDropped

\* a plain paragraph before the only trigger paragraph: one entry, without it
C13_Witness ==
    /\ pc = "metadata"
    /\ text = " Led team \n\nDev\nAcme May 2019"
    /\ Len(experience_list) = 1
    /\ experience_list[1].title = "Dev"
    /\ experience_list[1].description = <<>>

\* the first line of s, trimmed
FirstLineTrimmed(s) ==
    LET breaks == {i \in 1..Len(s) : Ch(s, i) = "\n"}
        stop   == IF breaks = {} THEN Len(s) + 1
                  ELSE CHOOSE a \in breaks : \A b \in breaks : a <= b
    IN  Strip(SubSeq(s, 1, stop - 1))

\* the date matches of s, one per position where a date starts, in text order
AllDatesOf(s) ==
    LET order == Ascending(MatchStarts(DATE_PATTERN, s))
    IN  [k \in 1..Len(order) |->
            SubSeq(s, order[k], Ends(DATE_PATTERN, s, order[k])[1] - 1)]

\* what the claim says a trigger paragraph gives the entry it opens
StatedEntry(model, paragraph) ==
    [title       |-> FirstLineTrimmed(paragraph),
     company     |-> FirstLabelled(model, paragraph, {"ORG"}, Len(paragraph)),
     dates       |-> AllDatesOf(paragraph),
     description |-> <<>>]

\* the entry a trigger paragraph opens is made from that paragraph alone
OpenedFresh ==
    /\ pc = "paragraph"
    /\ para_idx <= Len(paragraphs)
    /\ IsTrigger(paragraphs[para_idx])
    /\ pc' = "paragraph"
    => current_experience' = StatedEntry(nlp, paragraphs[para_idx])

\* the returned entries still have the title, company and dates they were
\* opened with
OpenedFieldsKept ==
    pc = "metadata" =>
        LET trigs == Ascending(TriggerIndices(paragraphs, Len(paragraphs)))
        IN  /\ Len(experience_list) = Len(trigs)
            /\ \A k \in 1..Len(trigs) :
                  [experience_list[k] EXCEPT !.description = <<>>]
                      = StatedEntry(nlp, paragraphs[trigs[k]])

\* C15: a freshly opened entry has the trimmed first line of its trigger
\* paragraph as title, all date matches of that paragraph in order with
\* duplicates as dates, the paragraph's first ORG entity (else None) as
\* company and an empty description; later paragraphs change none of title,
\* company and dates.
C15_FreshEntryFields == [][OpenedFresh]_vars /\ []OpenedFieldsKept

\* a paragraph with a place before the organization and the same date twice,
\* followed by a plain paragraph
C15_Witness ==
    /\ pc = "metadata"
    /\ text = "Paris Acme\nMay 2019 - May 2019\n\n Led team "
    /\ nlp = [Acme |-> "ORG", Paris |-> "GPE"]
    /\ experience_list =
          <<[title |-> "Paris Acme", company |-> "Acme",
             dates |-> <<"May 2019", "May 2019">>, description |-> <<"Led team">>]>>

-----------------------------------------------------------------------------
(* main(): the batch driver *)

\* output_dir / f"{pdf_file.stem}_parsed.json"
OutputName(file) == file.stem \o "_parsed.json"

\* the end of one iteration of the loop over pdf_files
NextFile ==
    IF file_idx < Len(pdf_files)
    THEN file_idx' = file_idx + 1 /\ pc' = "verify"
    ELSE file_idx' = file_idx /\ pc' = "tally"

\* the file of this iteration is counted as kind
Count(kind) ==
    /\ success_count' = success_count + (IF kind = "success" THEN 1 ELSE 0)
    /\ failed_count' = failed_count + (IF kind = "failed" THEN 1 ELSE 0)
    /\ tally_log' = Append(tally_log, [file |-> file_idx, counted |-> kind])

\* from the start to the loop: no PDF file, or the counters set to 0
MainStart ==
    /\ pc = "main"
    /\ IF pdf_files = <<>>
       THEN pc' = "exit" /\ UNCHANGED <<file_idx, success_count, failed_count>>
       ELSE /\ file_idx' = 1
            /\ success_count' = 0
            /\ failed_count' = 0
            /\ pc' = "verify"
    /\ UNCHANGED <<outerVars, nlp, pdf_files, text, contact_info, education_list, parserVars,
                   written, tally_log, tally>>

MainVerifyNoContinue ==
    /\ pc = "verify"
    /\ IF verify_pdf(pdf_files[file_idx])
       THEN UNCHANGED <<success_count, failed_count, tally_log>>
       ELSE Count("failed")
    /\ pc' = "call"
    /\ UNCHANGED <<outerVars, nlp, pdf_files, text, contact_info, education_list, parserVars,
                   file_idx, written, tally>>

\* if not verify_pdf(...): failed_count += 1; continue
MainVerify ==
    /\ pc = "verify"
    /\ IF verify_pdf(pdf_files[file_idx])
       THEN pc' = "call" /\ UNCHANGED <<file_idx, success_count, failed_count, tally_log>>
       ELSE Count("failed") /\ NextFile
    /\ UNCHANGED <<outerVars, nlp, pdf_files, text, contact_info, education_list, parserVars,
                   written, tally>>

\* parsed_data = parser.parse_resume(str(pdf_file))
MainCall ==
    /\ pc = "call"
    /\ ParseEnter(file_idx)

\* the rest of the try block.  An exception raised in it before the file is
\* counted is handled by counting the file as failed; save_to_json catches
\* its own failure to write, so the file may be missing after it.
MainResult ==
    /\ pc = "main_result"
    /\ \E raised \in BOOLEAN, saved \in BOOLEAN :
          IF raised
          THEN ~saved /\ Count("failed") /\ UNCHANGED written
          ELSE IF result # NoResult
               THEN /\ written' = IF saved
                                  THEN written \cup {OutputName(pdf_files[file_idx])}
                                  ELSE written
                    /\ Count("success")
               ELSE ~saved /\ Count("failed") /\ UNCHANGED written
    /\ NextFile
    /\ UNCHANGED <<outerVars, nlp, pdf_files, text, contact_info, education_list, parserVars,
                   tally>>

\* the summary: "Successful: ...", "Failed: ..."
MainTally ==
    /\ pc = "tally"
    /\ tally' = [successful |-> success_count, failed |-> failed_count]
    /\ pc' = "exit"
    /\ UNCHANGED <<outerVars, nlp, pdf_files, text, contact_info, education_list, parserVars,
                   file_idx, success_count, failed_count, written, tally_log>>

MaxFiles == 3

STEMS == "abcdefgh"

\* what a PDF file of the input directory may hold
BatchContents ==
    {[readable |-> FALSE, pages |-> <<>>],
     [readable |-> TRUE, pages |-> <<"", " ">>],
     [readable |-> TRUE, pages |-> <<"Intro", "\nDev\nAcme May 2019\n\n Led team ">>]}

\* the input directories: at most MaxFiles files, with different names
Directories ==
    UNION {[1..n -> BatchContents] : n \in 0..MaxFiles}

InitMain ==
    /\ nlp \in NlpModelsOn({"Acme"})
    /\ \E dir \in Directories :
          pdf_files = [k \in DOMAIN dir |->
                          [stem |-> Ch(STEMS, k), readable |-> dir[k].readable,
                           pages |-> dir[k].pages]]
    /\ pc = "main"
    /\ text = ""
    /\ ParserFresh
    /\ MainFresh
    /\ EngineLoaded
    /\ WebFresh

NextMain ==
    \/ MainStart
    \/ MainVerify
    \/ MainCall
    \/ ParseSteps
    \/ MainResult
    \/ MainTally

SpecMain == InitMain /\ [][NextMain]_vars

-----------------------------------------------------------------------------
(* Claims about main *)

\* every file was counted, once, in order
CountedOnce ==
    /\ Len(tally_log) = Len(pdf_files)
    /\ \A i \in 1..Len(tally_log) : tally_log[i].file = i

\* no parse_resume call for a file that verify_pdf rejects, and that file is
\* counted as failed
RejectedNotParsed ==
    \A i \in 1..Len(pdf_files) :
        ~verify_pdf(pdf_files[i]) =>
            /\ \A k \in 1..Len(invoked) : invoked[k] # i
            /\ tally_log[i].counted = "failed"

FinalTally ==
    /\ tally # NoResult
    /\ tally.successful = success_count
    /\ tally.failed = failed_count
    /\ success_count + failed_count = Len(pdf_files)
    /\ CountedOnce
    /\ RejectedNotParsed

\* C8 as stated: whatever the input directory holds, main ends with its final
\* tally, with every discovered file counted once.
C8_AlwaysTallies == pc = "exit" => FinalTally

\* how far main is from its end: the files still to process, the stage of
\* the current file, the paragraphs still to read
StageRank ==
    CASE pc = "main"        -> 12
      [] pc = "verify"      -> 11
      [] pc = "call"        -> 10
      [] pc = "contact"     -> 9
      [] pc = "education"   -> 8
      [] pc = "experience"  -> 7
      [] pc = "paragraph"   -> 6
      [] pc = "metadata"    -> 5
      [] pc = "main_result" -> 4
      [] pc = "tally"       -> 3
      [] pc = "exit"        -> 0

Remaining ==
    <<IF pc \in {"tally", "exit"} THEN 0 ELSE Len(pdf_files) + 1 - file_idx,
      StageRank,
      IF pc = "paragraph" THEN Len(paragraphs) + 1 - para_idx ELSE 0>>

\* lexicographic order on triples of naturals
Below(a, b) ==
    \/ a[1] < b[1]
    \/ a[1] = b[1] /\ a[2] < b[2]
    \/ a[1] = b[1] /\ a[2] = b[2] /\ a[3] < b[3]

\* before its end main is at a statement it can execute
HasStep ==
    \/ pc \in {"main", "tally"}
    \/ pc \in {"verify", "call", "main_result"} /\ file_idx \in 1..Len(pdf_files)
    \/ /\ pc \in {"contact", "education", "experience", "metadata"}
       /\ pdf_path = file_idx
    \/ pc = "paragraph" /\ para_idx \in 1..(Len(paragraphs) + 1)

\* C8, amended: main always ends (it is never stuck before its end, and every
\* step brings it closer to it), and when at least one PDF file was found it
\* ends with its final tally: every file counted once, the counts adding up
\* to the number of files, and no parse_resume call for a file that
\* verify_pdf rejected.
C8_TalliesWhenFilesFound ==
    /\ [](pc = "exit" /\ pdf_files # <<>> => FinalTally)
    /\ [](pc # "exit" => HasStep)
    /\ [][Below(Remaining', Remaining)]_vars

\* three files, the first unreadable: 2 succeeded, 1 failed, one parse_resume
\* call per readable file
C8_Witness ==
    /\ pc = "exit"
    /\ Len(pdf_files) = 3
    /\ ~pdf_files[1].readable
    /\ tally = [successful |-> 2, failed |-> 1]
    /\ invoked = <<2, 3>>

\* C9 as stated: at the end the JSON files written are those of the files
\* counted as succeeded, as many as the success tally.
C9_FilesMatchSuccesses ==
    pc = "exit" /\ tally # NoResult =>
        /\ Cardinality(written) = tally.successful
        /\ written = {OutputName(pdf_files[tally_log[i].file]) :
                        i \in {j \in 1..Len(tally_log) : tally_log[j].counted = "success"}}

-----------------------------------------------------------------------------
(* The process that runs resume_parser.py as a script: the module-level     *)
(* statements, among them the load of the NER model, and then main()       *)

\* try: nlp = spacy.load(...); except OSError: spacy.cli.download(...);
\* nlp = spacy.load(...).  A download that fails ends the process, and so
\* does a second load that fails.
Import ==
    /\ pc = "import"
    /\ IF model_installed
       THEN /\ nlp' \in NlpModelsOn({"Acme"})
            /\ load_log' = Append(load_log, LoadEvent("load", TRUE, TRUE))
            /\ pc' = "main"
            /\ UNCHANGED model_installed
       ELSE \E fetched \in BOOLEAN, loaded \in BOOLEAN :
               /\ loaded => fetched
               /\ model_installed' = fetched
               /\ load_log' =
                     load_log
                     \o <<LoadEvent("load", FALSE, FALSE),
                          LoadEvent("download", FALSE, fetched)>>
                     \o (IF fetched THEN <<LoadEvent("load", TRUE, loaded)>> ELSE <<>>)
               /\ IF loaded
                  THEN nlp' \in NlpModelsOn({"Acme"}) /\ pc' = "main"
                  ELSE nlp' = nlp /\ pc' = "import_error"
    /\ UNCHANGED <<webVars, pdf_files, text, contact_info, education_list,
                   parserVars, mainVars>>

InitProcess ==
    /\ nlp = NoResult
    /\ model_installed \in BOOLEAN
    /\ load_log = <<>>
    /\ \E dir \in Directories :
          pdf_files = [k \in DOMAIN dir |->
                          [stem |-> Ch(STEMS, k), readable |-> dir[k].readable,
                           pages |-> dir[k].pages]]
    /\ pc = "import"
    /\ text = ""
    /\ ParserFresh
    /\ MainFresh
    /\ WebFresh

NextProcess == Import \/ NextMain

SpecProcess == InitProcess /\ [][NextProcess]_vars

-----------------------------------------------------------------------------
(* Claims about the load of the NER model *)

\* an operation that calls nlp(...) has begun: parse_resume got a text and
\* went on to its extractors, in this call or in an earlier one
NerNeeded ==
    \/ pc \in {"contact", "education", "experience", "paragraph", "metadata"}
    \/ \E k \in 1..Len(returned) : returned[k].text # ""

\* the positions in the log of the loads that succeeded
LoadsDone == {k \in 1..Len(load_log) : load_log[k].op = "load" /\ load_log[k].ok}

\* C16 as stated: the NER model is loaded lazily.  Nothing is loaded or
\* downloaded before the first operation that needs NER; the model is loaded
\* at most once, and once when NER was needed; a download is attempted only
\* with the local model missing; nothing is loaded after a load that succeeded.
C16_LoadedLazily ==
    /\ load_log # <<>> => NerNeeded
    /\ Cardinality(LoadsDone) <= 1
    /\ NerNeeded => Cardinality(LoadsDone) = 1
    /\ \A k \in 1..Len(load_log) :
          load_log[k].op = "download" => ~load_log[k].installed
    /\ \A k \in LoadsDone : k = Len(load_log)

-----------------------------------------------------------------------------
(* app.py: the Flask application, seen from one client and its session *)

\* url_for(endpoint)
url_for(endpoint) ==
    CASE endpoint = "index"       -> "/"
      [] endpoint = "signup"      -> "/signup"
      [] endpoint = "login"       -> "/login"
      [] endpoint = "upload_page" -> "/upload_page"
      [] endpoint = "upload_file" -> "/upload_file"
      [] endpoint = "browse"      -> "/browse"
      [] endpoint = "logout"      -> "/logout"

redirect(location) == [kind |-> "redirect", to |-> location]

\* render_template(name) and render_template(name, error=...)
render_template(name, message) ==
    [kind |-> "render", template |-> name, error |-> message]

\* jsonify({key: message})
jsonify(key, message) == [kind |-> "json", key |-> key, message |-> message]

\* the response to a request whose handler raised
InternalServerError == [kind |-> "error", status |-> 500]

Kind(r) == IF r = NoResult THEN Null ELSE r.kind

\* key in session
InSession(key) == key \in DOMAIN session

\* session.get(key)
SessionGet(key) == IF InSession(key) THEN session[key] ELSE Null

\* session[key] = value
SessionSet(key, value) ==
    [k \in DOMAIN session \cup {key} |-> IF k = key THEN value ELSE session[k]]

RECURSIVE MapChars(_, _, _)
\* s with every character from replaced by to
MapChars(s, from, to) ==
    IF s = "" THEN ""
    ELSE (IF Head(s) = from THEN to ELSE Head(s)) \o MapChars(Tail(s), from, to)

RECURSIVE KeepChars(_, _)
\* s without the characters that are not in set
KeepChars(s, set) ==
    IF s = "" THEN ""
    ELSE (IF Head(s) \in set THEN Head(s) ELSE "") \o KeepChars(Tail(s), set)

RECURSIVE WordsFrom(_, _)
\* str.split(): the stretches of s between whitespace
WordsFrom(s, word) ==
    IF s = "" THEN (IF word = "" THEN <<>> ELSE <<word>>)
    ELSE IF Head(s) \in WS
         THEN (IF word = "" THEN <<>> ELSE <<word>>) \o WordsFrom(Tail(s), "")
         ELSE WordsFrom(Tail(s), word \o Head(s))

RECURSIVE JoinWith(_, _, _)
\* sep.join(words)
JoinWith(words, sep, k) ==
    IF k > Len(words) THEN ""
    ELSE words[k] \o (IF k < Len(words) THEN sep ELSE "") \o JoinWith(words, sep, k + 1)

RECURSIVE StripOf(_, _)
\* str.strip(chars)
StripOf(s, set) ==
    IF s # "" /\ Head(s) \in set THEN StripOf(Tail(s), set)
    ELSE IF s # "" /\ Ch(s, Len(s)) \in set THEN StripOf(SubSeq(s, 1, Len(s) - 1), set)
    ELSE s

\* werkzeug.utils.secure_filename for ASCII names on a POSIX system: path
\* separators become spaces, whitespace runs become "_", characters outside
\* [A-Za-z0-9_.-] go, and leading and trailing "." and "_" go
secure_filename(name) ==
    StripOf(KeepChars(JoinWith(WordsFrom(MapChars(name, "/", " "), ""), "_", 1),
                      ALPHA \cup DIGIT \cup {"_", ".", "-"}),
            {".", "_"})

\* the emails a form may carry; request.form.get('email') is None without the field
Emails == {"a@b.co", "c.d@e.org"}

FormEmails == Emails \cup {Null}

\* request.files: no 'resume' part, or a file with its name
FileNames == {"", "cv.pdf", "my cv.pdf", "../"}

RequestFiles == {NoResult} \cup {[filename |-> n] : n \in FileNames}

\* the redirects a client follows in a row before it gives up
MaxRedirects == 3

\* the client requests path: a request of its own, or the GET that follows
\* the redirect it was just sent
Requested(path, own) ==
    /\ \/ own
       \/ /\ Kind(response) = "redirect"
          /\ response.to = path
          /\ Len(chain) <= MaxRedirects
    /\ chain' = IF own THEN <<path>> ELSE Append(chain, path)

LoggedIn == InSession("user") /\ InSession("logged_in")

\* GET /
index ==
    /\ \E own \in BOOLEAN : Requested(url_for("index"), own)
    /\ response' =
          IF ~InSession("user") THEN redirect(url_for("signup"))
          ELSE IF ~InSession("logged_in") THEN redirect(url_for("login"))
          ELSE IF ~InSession("resume_uploaded") THEN redirect(url_for("upload_page"))
          ELSE redirect(url_for("browse"))
    /\ UNCHANGED <<session, uploads, accepted>>
    /\ UNCHANGED <<loaderVars, nlp, pdf_files, pc, text, contact_info,
                   education_list, parserVars, mainVars>>

\* GET and POST /signup
signup ==
    /\ \E method \in {"GET", "POST"} :
          IF method = "POST"
          THEN /\ Requested(url_for("signup"), TRUE)
               /\ \E email \in FormEmails : session' = SessionSet("user", email)
               /\ response' = redirect(url_for("login"))
          ELSE /\ \E own \in BOOLEAN : Requested(url_for("signup"), own)
               /\ response' = render_template("signup.html", Null)
               /\ UNCHANGED session
    /\ UNCHANGED <<uploads, accepted>>
    /\ UNCHANGED <<loaderVars, nlp, pdf_files, pc, text, contact_info,
                   education_list, parserVars, mainVars>>

\* GET and POST /login
login ==
    /\ \E method \in {"GET", "POST"} :
          IF method = "POST"
          THEN /\ Requested(url_for("login"), TRUE)
               /\ \E email \in FormEmails :
                     IF email = SessionGet("user")
                     THEN /\ session' = SessionSet("logged_in", TRUE)
                          /\ accepted' = <<email>>
                          /\ response' = redirect(url_for("upload_page"))
                     ELSE /\ response' =
                                render_template("login.html", "Invalid credentials")
                          /\ UNCHANGED <<session, accepted>>
          ELSE /\ \E own \in BOOLEAN : Requested(url_for("login"), own)
               /\ response' = render_template("login.html", Null)
               /\ UNCHANGED <<session, accepted>>
    /\ UNCHANGED uploads
    /\ UNCHANGED <<loaderVars, nlp, pdf_files, pc, text, contact_info,
                   education_list, parserVars, mainVars>>

upload_page_to_itself ==
    /\ \E own \in BOOLEAN : Requested(url_for("upload_page"), own)
    /\ response' =
          IF ~LoggedIn THEN redirect(url_for("upload_page"))
          ELSE render_template("upload_page.html", Null)
    /\ UNCHANGED <<session, uploads, accepted>>
    /\ UNCHANGED <<loaderVars, nlp, pdf_files, pc, text, contact_info,
                   education_list, parserVars, mainVars>>

\* GET /upload_page
upload_page ==
    /\ \E own \in BOOLEAN : Requested(url_for("upload_page"), own)
    /\ response' =
          IF ~LoggedIn THEN redirect(url_for("login"))
          ELSE render_template("upload_page.html", Null)
    /\ UNCHANGED <<session, uploads, accepted>>
    /\ UNCHANGED <<loaderVars, nlp, pdf_files, pc, text, contact_info,
                   education_list, parserVars, mainVars>>

\* POST /upload_file.  A name that secure_filename empties makes file_path
\* the upload folder itself, file.save raises, and the request fails.
upload_file ==
    /\ Requested(url_for("upload_file"), TRUE)
    /\ \E file \in RequestFiles :
          IF ~LoggedIn
          THEN /\ response' = jsonify("error", "User not logged in")
               /\ UNCHANGED <<session, uploads>>
          ELSE IF file = NoResult
          THEN /\ response' = jsonify("error", "No file part")
               /\ UNCHANGED <<session, uploads>>
          ELSE IF file.filename = ""
          THEN /\ response' = jsonify("error", "No selected file")
               /\ UNCHANGED <<session, uploads>>
          ELSE LET filename == secure_filename(file.filename)
               IN  IF filename = ""
                   THEN /\ response' = InternalServerError
                        /\ UNCHANGED <<session, uploads>>
                   ELSE /\ uploads' = uploads \cup {filename}
                        /\ session' = SessionSet("resume_uploaded", TRUE)
                        /\ response' =
                              jsonify("success",
                                      "File " \o filename \o " uploaded successfully!")
    /\ UNCHANGED accepted
    /\ UNCHANGED <<loaderVars, nlp, pdf_files, pc, text, contact_info,
                   education_list, parserVars, mainVars>>

\* GET /browse
browse ==
    /\ \E own \in BOOLEAN : Requested(url_for("browse"), own)
    /\ response' =
          IF ~LoggedIn THEN redirect(url_for("login"))
          ELSE IF ~InSession("resume_uploaded") THEN redirect(url_for("upload_page"))
          ELSE render_template("browse.html", Null)
    /\ UNCHANGED <<session, uploads, accepted>>
    /\ UNCHANGED <<loaderVars, nlp, pdf_files, pc, text, contact_info,
                   education_list, parserVars, mainVars>>

logout_login_only ==
    /\ \E own \in BOOLEAN : Requested(url_for("logout"), own)
    /\ session' = [k \in DOMAIN session \ {"logged_in"} |-> session[k]]
    /\ response' = redirect(url_for("signup"))
    /\ UNCHANGED <<uploads, accepted>>
    /\ UNCHANGED <<loaderVars, nlp, pdf_files, pc, text, contact_info,
                   education_list, parserVars, mainVars>>

\* GET /logout
logout ==
    /\ \E own \in BOOLEAN : Requested(url_for("logout"), own)
    /\ session' = EmptySession
    /\ response' = redirect(url_for("signup"))
    /\ UNCHANGED <<uploads, accepted>>
    /\ UNCHANGED <<loaderVars, nlp, pdf_files, pc, text, contact_info,
                   education_list, parserVars, mainVars>>

\* app.py does not import the parser: no NER model in this process
InitWeb ==
    /\ nlp = NoResult
    /\ model_installed = TRUE
    /\ load_log = <<>>
    /\ pdf_files = <<>>
    /\ pc = "serving"
    /\ text = ""
    /\ ParserFresh
    /\ MainFresh
    /\ WebFresh

NextWeb ==
    \/ index
    \/ signup
    \/ login
    \/ upload_page
    \/ upload_file
    \/ browse
    \/ logout

SpecWeb == InitWeb /\ [][NextWeb]_vars

-----------------------------------------------------------------------------
(* Claims about the session workflow of app.py *)

\* the path of the last request
LastPath == chain[Len(chain)]

\* resume_uploaded only with user and logged_in; browse.html only for such a
\* session; no key left by /logout
SessionGuarded ==
    /\ InSession("resume_uploaded") => LoggedIn
    /\ response = render_template("browse.html", Null) => LoggedIn
    /\ chain # <<>> /\ LastPath = url_for("logout") =>
          /\ ~InSession("user")
          /\ ~InSession("logged_in")
          /\ ~InSession("resume_uploaded")

\* a request that saves a file is made in a session with user and logged_in
SavedOnlyLoggedIn ==
    \/ uploads' # uploads
    \/ Kind(response') = "json" /\ response'.key = "success"
    => LoggedIn

\* C18: resume_uploaded is set only if user and logged_in are set, so
\* browse.html is rendered and an uploaded file is saved only in a session
\* with user and logged_in, and after /logout none of the three keys is set.
C18_UploadNeedsLogin == []SessionGuarded /\ [][SavedOnlyLoggedIn]_vars

\* signed up, logged in, uploaded a file and looking at browse.html
C18_Witness ==
    /\ session = [user |-> "a@b.co", logged_in |-> TRUE, resume_uploaded |-> TRUE]
    /\ uploads = {"my_cv.pdf"}
    /\ response = render_template("browse.html", Null)

\* the session is empty again after a logout that followed an upload
C18_WitnessLogout ==
    /\ chain = <<url_for("logout")>>
    /\ uploads # {}
    /\ session = EmptySession

\* C19 as stated: logged_in is set only if user is set, and the email the
\* accepted login POST carried is the current session user: no login succeeds
\* without a signup before it, and a later signup POST does not leave
\* logged_in set for another user.
C19_LoginMatchesUser ==
    InSession("logged_in") =>
        /\ InSession("user")
        /\ accepted = <<session["user"]>>

\* the chain began with a GET of /, /upload_page or /browse
FromEntryPage ==
    /\ chain # <<>>
    /\ chain[1] \in {url_for("index"), url_for("upload_page"), url_for("browse")}

Templates == {"signup.html", "login.html", "upload_page.html", "browse.html"}

\* a chain of redirects visits no path twice, the redirect it was sent last
\* leads to a page not visited yet that the client can request, and what it
\* gets otherwise is a template
NoRedirectCycle ==
    FromEntryPage =>
        /\ \A j, k \in 1..Len(chain) : chain[j] = chain[k] => j = k
        /\ Len(chain) <= 2
        /\ \/ /\ Kind(response) = "redirect"
              /\ \A k \in 1..Len(chain) : chain[k] # response.to
              /\ response.to \in {url_for("signup"), url_for("login"),
                                  url_for("upload_page"), url_for("browse")}
              /\ Len(chain) <= MaxRedirects
           \/ /\ Kind(response) = "render"
              /\ response.template \in Templates

\* following the one redirect an entry page sends gives a template
FollowedOnce ==
    FromEntryPage /\ Len(chain) = 2 =>
        Kind(response) = "render" /\ response.template \in Templates

\* C20: from every session state a GET of /, /upload_page or /browse and the
\* redirects that follow it end at a rendered template (signup, login,
\* upload_page or browse) after at most one redirect; the redirects never
\* form a cycle.
C20_RedirectsEnd == NoRedirectCycle /\ FollowedOnce

\* / sent a logged-in client without resume to /upload_page, which rendered
C20_Witness ==
    /\ chain = <<url_for("index"), url_for("upload_page")>>
    /\ LoggedIn
    /\ response = render_template("upload_page.html", Null)

\* logged_in without user: /browse sends the client to /login, which renders
C20_WitnessNoUser ==
    /\ chain = <<url_for("browse"), url_for("login")>>
    /\ InSession("logged_in") /\ ~InSession("user")
    /\ response = render_template("login.html", Null)

====
